---- MODULE Spec2Model ----
(***************************************************************************)
(* Model of src/app.py, the COVID-19 vaccination dashboard.                *)
(*                                                                         *)
(* The script is re-executed top to bottom on every user interaction.  A   *)
(* run is modelled section by section (pc), the process-wide state that    *)
(* survives a run is the st.cache_data cache of load_data and the file on  *)
(* disk.  A DataFrame is modelled the way pandas holds it: the rows of the *)
(* dataset are a sequence, and every derived frame (filtered_df,           *)
(* subset_df, latest_country_data, top_10) is a sequence of index labels   *)
(* into the dataset, in the frame's row order.                             *)
(*                                                                         *)
(* Locations are integers whose order stands for the order of the names:   *)
(* World and Europe stand for the entries of non_country_aggregates, the   *)
(* integers above them for countries.  Dates are 1..MaxDate.  A missing    *)
(* numeric value (float NaN) is NaN.                                       *)
(***************************************************************************)
EXTENDS Integers, Sequences, FiniteSets

\* ------------------------------------------------------------ bounds
MaxRows == 2          \* rows of a freely chosen dataset
MaxDate == 2          \* dates are 1..MaxDate
NumWide == 2          \* generated datasets with more than TopN countries
MaxReads == 2         \* the count of reads of the data file saturates here

\* ------------------------------------------------- program constants
TopN == 10            \* latest_country_data.nlargest(10, ...)
World == 0            \* 'World', the location "Worldwide" filters on
Europe == 1           \* a second entry of non_country_aggregates
Worldwide == -1       \* the selectbox option "Worldwide"
NaN == -2             \* a missing numeric value

non_country_aggregates == {World, Europe}

comparison_cols == <<"people_vaccinated", "people_fully_vaccinated">>

\* ------------------------------------------------------------ inputs
FirstCountry == Europe + 1

\* The countries a freely chosen row may name.
Countries == {FirstCountry, FirstCountry + 1}

Dates == 1 .. MaxDate

\* The numeric columns of a row, as the combinations the datasets draw from:
\* a complete row, a row without its counts, and a row that misses only the
\* coverage percentage.
Numbers ==
    { [total_vaccinations |-> 2, people_vaccinated |-> 2,
       people_fully_vaccinated |-> 1, total_boosters |-> 0,
       people_fully_vaccinated_per_hundred |-> 40],
      [total_vaccinations |-> NaN, people_vaccinated |-> 1,
       people_fully_vaccinated |-> NaN, total_boosters |-> NaN,
       people_fully_vaccinated_per_hundred |-> NaN],
      [total_vaccinations |-> 1, people_vaccinated |-> NaN,
       people_fully_vaccinated |-> 0, total_boosters |-> 0,
       people_fully_vaccinated_per_hundred |-> NaN] }

MkRow(loc, d, n) ==
    [location |-> loc, date |-> d,
     total_vaccinations |-> n.total_vaccinations,
     people_vaccinated |-> n.people_vaccinated,
     people_fully_vaccinated |-> n.people_fully_vaccinated,
     total_boosters |-> n.total_boosters,
     people_fully_vaccinated_per_hundred |-> n.people_fully_vaccinated_per_hundred]

\* A freely chosen row is a row of World or of a country.
Rows == { MkRow(loc, d, n) : loc \in {World} \cup Countries, d \in Dates, n \in Numbers }

\* Every dataset of 1 .. MaxRows freely chosen rows, in any order: the program
\* reads whatever rows the file holds and neither sorts nor checks them.  A
\* dataset has at least one row (without one, min_date and max_date are NaT
\* and the date widget's answer to them is not in the script).
SmallDatasets == UNION { [1 .. k -> Rows] : k \in 1 .. MaxRows }

\* A generated dataset with TopN + 3 countries, one row each, whose totals
\* repeat, differ and are missing (in the first dataset more than TopN rows
\* have a total, in the others fewer), followed by a row of Europe, a row of
\* World and a second row of the first country.
WideCountries == TopN + 3

WideRow(k, i) ==
    LET tv == IF i % (IF k = 1 THEN 5 ELSE 3) = 0 THEN NaN ELSE (i * (2 * k + 1)) % 7
    IN  [location |-> FirstCountry + i - 1,
         date |-> 1 + ((i + k) % MaxDate),
         total_vaccinations |-> tv,
         people_vaccinated |-> tv,
         people_fully_vaccinated |-> IF tv = NaN THEN NaN ELSE tv \div 2,
         total_boosters |-> 0,
         people_fully_vaccinated_per_hundred |-> 10 * (i % 7)]

\* The numbers of a row without a missing value.
Complete == CHOOSE n \in Numbers : \A col \in DOMAIN n : ~(n[col] = NaN)

WideDataset(k, w, c) ==
    [i \in 1 .. WideCountries |-> WideRow(k, i)] \o <<MkRow(Europe, 1, Complete), w, c>>

WideDatasets ==
    { WideDataset(k, MkRow(World, d, n), MkRow(FirstCountry, e, Complete)) :
          k \in 1 .. NumWide, d \in Dates, n \in Numbers, e \in Dates }

Datasets == SmallDatasets \cup WideDatasets

\* ------------------------------------------------- pandas operations
IsNaN(x) == x = NaN

\* The index of a freshly read frame: one label per row, in file order.
Index(d) == [i \in 1 .. Len(d) |-> i]

\* DataFrame.head(n)
head(frame, n) == SubSeq(frame, 1, IF n < Len(frame) THEN n ELSE Len(frame))

\* A stable ascending sort of the labels of `frame` by key[label]: labels
\* with equal keys keep their order.
RECURSIVE InsertSorted(_, _, _)
InsertSorted(x, sorted, key) ==
    IF sorted = <<>> THEN <<x>>
    ELSE IF key[x] < key[sorted[Len(sorted)]]
         THEN InsertSorted(x, SubSeq(sorted, 1, Len(sorted) - 1), key)
                  \o <<sorted[Len(sorted)]>>
         ELSE sorted \o <<x>>

RECURSIVE StableSort(_, _)
StableSort(frame, key) ==
    IF frame = <<>> THEN <<>>
    ELSE InsertSorted(frame[Len(frame)],
                      StableSort(SubSeq(frame, 1, Len(frame) - 1), key),
                      key)

RECURSIVE SortedList(_)
SortedList(S) ==
    IF S = {} THEN <<>>
    ELSE LET m == CHOOSE x \in S : \A y \in S : x <= y
         IN  <<m>> \o SortedList(S \ {m})

\* df['location'].unique()
unique_locations(d) == { d[i].location : i \in DOMAIN d }

\* sorted([loc for loc in df['location'].unique() if loc not in non_country_aggregates])
country_list(d) ==
    SortedList({ loc \in unique_locations(d) : loc \notin non_country_aggregates })

\* Mutant of location_options: the aggregates are not filtered out.
location_options_WithAggregates(d) == <<Worldwide>> \o SortedList(unique_locations(d))

\* ["Worldwide"] + country_list
location_options(d) == <<Worldwide>> \o country_list(d)

\* df['date'].min().date(), df['date'].max().date(); 0 stands for NaT (no rows)
min_date(d) ==
    IF d = <<>> THEN 0
    ELSE CHOOSE m \in { d[i].date : i \in DOMAIN d } : \A i \in DOMAIN d : m <= d[i].date

max_date(d) ==
    IF d = <<>> THEN 0
    ELSE CHOOSE m \in { d[i].date : i \in DOMAIN d } : \A i \in DOMAIN d : m >= d[i].date

\* What st.sidebar.date_input returns for a range: the two dates picked
\* (start <= end, both inside min_value..max_value), one date while the
\* user has picked only the start, or no date.
date_input(lo, hi) ==
    { t \in (lo .. hi) \X (lo .. hi) : t[1] <= t[2] }
        \cup { <<s>> : s \in lo .. hi } \cup { <<>> }

\* if selected_option == "Worldwide": "World" else: selected_option
location_to_filter(option) == IF option = Worldwide THEN World ELSE option

\* df[df['location'] == location_to_filter].copy()
FilterByLocation(d, loc) ==
    LET keep(i) == d[i].location = loc
    IN  SelectSeq(Index(d), keep)

\* Mutant of FilterByDate: the end date is excluded.
FilterByDate_EndExcluded(d, frame, start, end) ==
    LET keep(i) == d[i].date >= start /\ d[i].date < end
    IN  SelectSeq(frame, keep)

\* frame[(frame['date'].dt.date >= start_date) & (frame['date'].dt.date <= end_date)]
FilterByDate(d, frame, start, end) ==
    LET keep(i) == d[i].date >= start /\ d[i].date <= end
    IN  SelectSeq(frame, keep)

\* Mutant of iloc_last: the first row, frame.iloc[0].
iloc_first(frame) == frame[1]

\* frame.iloc[-1]: the label of the last row
iloc_last(frame) == frame[Len(frame)]

\* Mutant of melt: only the first count column is unpivoted.
melt_FirstColumnOnly(d, frame) ==
    [k \in 1 .. Len(frame) |->
        [location |-> d[frame[k]].location, Metric |-> comparison_cols[1],
         Count |-> d[frame[k]][comparison_cols[1]]]]

\* frame[['location'] + comparison_cols].melt(id_vars='location',
\*     var_name='Metric', value_name='Count'): one block of rows per value
\* column, each block in the frame's row order.
melt(d, frame) ==
    [k \in 1 .. (Len(comparison_cols) * Len(frame)) |->
        LET col == comparison_cols[((k - 1) \div Len(frame)) + 1]
            row == d[frame[((k - 1) % Len(frame)) + 1]]
        IN  [location |-> row.location, Metric |-> col, Count |-> row[col]]]

\* df[(df['date'].dt.date <= end_date) & (~df['location'].isin(non_country_aggregates))]
subset_df(d, end) ==
    LET keep(i) == d[i].date <= end /\ d[i].location \notin non_country_aggregates
    IN  SelectSeq(Index(d), keep)

\* The rows of `frame` in reverse order.
Reversed(frame) == [k \in 1 .. Len(frame) |-> frame[Len(frame) + 1 - k]]

\* frame.sort_values('date'): ascending by date.  The default sort is not a
\* stable one, so the order of rows with equal dates is not fixed by the
\* script: they come out in the frame's order or (ties_reversed) in its
\* reverse.
sort_values_date(d, frame, ties_reversed) ==
    StableSort(IF ties_reversed THEN Reversed(frame) ELSE frame,
               [i \in DOMAIN d |-> d[i].date])

\* Mutant of groupby_location_tail: the first row of each location, head(1).
groupby_location_head(d, frame) ==
    LET first(p) == \A q \in 1 .. (p - 1) :
                        d[frame[q]].location # d[frame[p]].location
        at == SelectSeq([p \in 1 .. Len(frame) |-> p], first)
    IN  [k \in 1 .. Len(at) |-> frame[at[k]]]

\* frame.groupby('location').tail(1): the last row of each location, the rows
\* kept in the frame's order.
groupby_location_tail(d, frame) ==
    LET last(p) == \A q \in (p + 1) .. Len(frame) :
                       d[frame[q]].location # d[frame[p]].location
        at == SelectSeq([p \in 1 .. Len(frame) |-> p], last)
    IN  [k \in 1 .. Len(at) |-> frame[at[k]]]

\* subset_df.sort_values('date').groupby('location').tail(1)
latest_per_country(d, end, ties_reversed) ==
    groupby_location_tail(d, sort_values_date(d, subset_df(d, end), ties_reversed))

\* Mutant of nlargest: the first n rows, unranked.
nlargest_Unranked(d, frame, n, fill_nan) == head(frame, n)

\* frame.nlargest(n, 'total_vaccinations'), keep='first': the rows with a
\* value in descending order, equal values in the frame's order, then the rows
\* without a value, cut to n rows.  With n below the number of rows the rows
\* without a value either fill the result up to n (fill_nan) or are left out
\* of it; the script pins no pandas release, and both are modelled.
nlargest(d, frame, n, fill_nan) ==
    LET has(i) == ~IsNaN(d[i].total_vaccinations)
        hasnt(i) == IsNaN(d[i].total_vaccinations)
        dropped == SelectSeq(frame, has)
        nan_index == SelectSeq(frame, hasnt)
        ordered == StableSort(dropped, [i \in DOMAIN d |-> 0 - d[i].total_vaccinations])
    IN  IF n >= Len(frame) \/ fill_nan
        THEN head(ordered \o nan_index, n)
        ELSE head(ordered, n)

\* -------------------------------------------------------------- state
VARIABLES
    file,                 \* the rows of cleaned_vaccinations.parquet
    fileExists,           \* whether the file is on disk
    cache,                \* st.cache_data's entry for load_data(); NoData: none
    reads,                \* completed pd.read_parquet calls, counted up to MaxReads
    pc,                   \* the section of the script the run is at
    df,                   \* the run's dataset
    selected_option,
    start_date,
    end_date,
    filtered_df,
    latest_data,          \* the label of the row, 0 before it is taken
    latest_comparison,
    latest_country_data,
    top_10,
    shown                 \* the elements the run has put on the page

vars == <<file, fileExists, cache, reads, pc, df, selected_option, start_date,
          end_date, filtered_df, latest_data, latest_comparison,
          latest_country_data, top_10, shown>>

runVars == <<df, selected_option, start_date, end_date, filtered_df, latest_data,
             latest_comparison, latest_country_data, top_10, shown>>

afterLoad == <<selected_option, start_date, end_date, filtered_df, latest_data,
               latest_comparison, latest_country_data, top_10>>

NoData == <<>>

NoOption == Worldwide - 1

Ended == {"done", "stopped", "failed"}

FreshRun ==
    /\ df = NoData
    /\ selected_option = NoOption
    /\ start_date = 0
    /\ end_date = 0
    /\ filtered_df = <<>>
    /\ latest_data = 0
    /\ latest_comparison = <<>>
    /\ latest_country_data = <<>>
    /\ top_10 = <<>>
    /\ shown = {}

Init ==
    /\ file \in Datasets
    /\ fileExists \in BOOLEAN
    /\ cache = NoData
    /\ reads = 0
    /\ pc = "load_data"
    /\ FreshRun

\* ------------------------------------------------------------ the run
\* A user interaction (or a page reload): the script runs again from the top.
Rerun ==
    /\ pc \in Ended
    /\ pc' = "load_data"
    /\ df' = NoData
    /\ selected_option' = NoOption
    /\ start_date' = 0
    /\ end_date' = 0
    /\ filtered_df' = <<>>
    /\ latest_data' = 0
    /\ latest_comparison' = <<>>
    /\ latest_country_data' = <<>>
    /\ top_10' = <<>>
    /\ shown' = {}
    /\ UNCHANGED <<file, fileExists, cache, reads>>

\* Mutant of load_data: the error is shown but the run is not stopped.
load_data_NoStop ==
    /\ pc = "load_data"
    /\ IF cache # NoData
       THEN /\ df' = cache
            /\ UNCHANGED <<cache, reads, shown>>
       ELSE IF fileExists
       THEN /\ df' = file
            /\ cache' = file
            /\ reads' = IF reads < MaxReads THEN reads + 1 ELSE reads
            /\ UNCHANGED shown
       ELSE /\ shown' = shown \cup {"error"}
            /\ UNCHANGED <<cache, reads, df>>
    /\ pc' = "sidebar"
    /\ UNCHANGED <<file, fileExists>>
    /\ UNCHANGED afterLoad

\* Mutant of load_data: without @st.cache_data, every run reads the file.
load_data_Uncached ==
    /\ pc = "load_data"
    /\ IF fileExists
       THEN /\ df' = file
            /\ reads' = IF reads < MaxReads THEN reads + 1 ELSE reads
            /\ pc' = "sidebar"
            /\ UNCHANGED shown
       ELSE /\ shown' = shown \cup {"error"}
            /\ pc' = "stopped"
            /\ UNCHANGED <<reads, df>>
    /\ UNCHANGED <<file, fileExists, cache>>
    /\ UNCHANGED afterLoad

\* df = load_data(), under @st.cache_data: the body runs only when no result
\* is cached; a run that stops inside it caches nothing.
load_data ==
    /\ pc = "load_data"
    /\ IF cache # NoData
       THEN /\ df' = cache
            /\ pc' = "sidebar"
            /\ UNCHANGED <<cache, reads, shown>>
       ELSE IF fileExists
       THEN /\ df' = file
            /\ cache' = file
            /\ reads' = IF reads < MaxReads THEN reads + 1 ELSE reads
            /\ pc' = "sidebar"
            /\ UNCHANGED shown
       ELSE /\ shown' = shown \cup {"error"}
            /\ pc' = "stopped"
            /\ UNCHANGED <<cache, reads, df>>
    /\ UNCHANGED <<file, fileExists>>
    /\ UNCHANGED afterLoad

\* The sidebar: the header, the selectbox and the date range.  Unpacking
\* start_date, end_date raises ValueError unless date_input returned two dates.
sidebar ==
    /\ pc = "sidebar"
    /\ \E option \in { location_options(df)[k] : k \in DOMAIN location_options(df) },
          picked \in date_input(min_date(df), max_date(df)) :
          /\ selected_option' = option
          /\ IF Len(picked) = 2
             THEN /\ start_date' = picked[1]
                  /\ end_date' = picked[2]
                  /\ shown' = shown \cup {"sidebar_header", "selectbox", "date_input"}
                  /\ pc' = "filter"
             ELSE /\ shown' = shown \cup {"sidebar_header", "selectbox", "date_input",
                                          "exception"}
                  /\ pc' = "failed"
                  /\ UNCHANGED <<start_date, end_date>>
    /\ UNCHANGED <<file, fileExists, cache, reads, df, filtered_df, latest_data,
                   latest_comparison, latest_country_data, top_10>>

\* Filter Data: by location, then by date.
filter_data ==
    /\ pc = "filter"
    /\ filtered_df' = FilterByDate(df, FilterByLocation(df, location_to_filter(selected_option)),
                                   start_date, end_date)
    /\ pc' = "main_page"
    /\ UNCHANGED <<file, fileExists, cache, reads, df, selected_option, start_date,
                   end_date, latest_data, latest_comparison, latest_country_data,
                   top_10, shown>>

\* Mutant of main_page: the warning is shown but the run is not stopped.
main_page_NoStop ==
    /\ pc = "main_page"
    /\ IF filtered_df = <<>>
       THEN shown' = shown \cup {"title", "header", "warning"}
       ELSE shown' = shown \cup {"title", "header"}
    /\ pc' = "key_metrics"
    /\ UNCHANGED <<file, fileExists, cache, reads, df, selected_option, start_date,
                   end_date, filtered_df, latest_data, latest_comparison,
                   latest_country_data, top_10>>

\* MAIN PAGE: the title, the location and date header, and the stop on an
\* empty filter result.
main_page ==
    /\ pc = "main_page"
    /\ IF filtered_df = <<>>
       THEN /\ shown' = shown \cup {"title", "header", "warning"}
            /\ pc' = "stopped"
       ELSE /\ shown' = shown \cup {"title", "header"}
            /\ pc' = "key_metrics"
    /\ UNCHANGED <<file, fileExists, cache, reads, df, selected_option, start_date,
                   end_date, filtered_df, latest_data, latest_comparison,
                   latest_country_data, top_10>>

\* KEY METRICS: int() of a missing value raises ValueError, st.progress of a
\* missing value raises; each card before the failing one is on the page.
key_metrics ==
    /\ pc = "key_metrics"
    /\ IF filtered_df = <<>>
       THEN /\ shown' = shown \cup {"exception"}
            /\ pc' = "failed"
            /\ UNCHANGED latest_data
       ELSE LET row == df[iloc_last(filtered_df)]
                ints == <<row.total_vaccinations, row.people_fully_vaccinated,
                          row.total_boosters>>
                names == <<"metric_total_vaccinations", "metric_fully_vaccinated",
                           "metric_boosters">>
                ok(k) == \A j \in 1 .. k : ~IsNaN(ints[j])
                cards == { names[k] : k \in { j \in 1 .. 3 : ok(j) } }
                coverage == row.people_fully_vaccinated_per_hundred
            IN  /\ latest_data' = iloc_last(filtered_df)
                /\ IF ~ok(3)
                   THEN /\ shown' = shown \cup cards \cup {"exception"}
                        /\ pc' = "failed"
                   ELSE IF IsNaN(coverage)
                   THEN /\ shown' = shown \cup cards \cup {"metric_coverage", "exception"}
                        /\ pc' = "failed"
                   ELSE /\ shown' = shown \cup cards \cup {"metric_coverage", "progress"}
                        /\ pc' = "tab1"
    /\ UNCHANGED <<file, fileExists, cache, reads, df, selected_option, start_date,
                   end_date, filtered_df, latest_comparison, latest_country_data,
                   top_10>>

\* Trends: the two charts over filtered_df.
tab1 ==
    /\ pc = "tab1"
    /\ shown' = shown \cup {"chart_total", "chart_daily"}
    /\ pc' = "tab2"
    /\ UNCHANGED <<file, fileExists, cache, reads, df, selected_option, start_date,
                   end_date, filtered_df, latest_data, latest_comparison,
                   latest_country_data, top_10>>

\* Comparisons: the latest row, melted, and its bar chart.
tab2 ==
    /\ pc = "tab2"
    /\ latest_comparison' = melt(df, <<iloc_last(filtered_df)>>)
    /\ shown' = shown \cup {"chart_compare"}
    /\ pc' = "tab3"
    /\ UNCHANGED <<file, fileExists, cache, reads, df, selected_option, start_date,
                   end_date, filtered_df, latest_data, latest_country_data, top_10>>

\* Global View: the ranking and the map for "Worldwide", a message otherwise.
tab3 ==
    /\ pc = "tab3"
    /\ IF selected_option = Worldwide
       THEN \E fill_nan \in BOOLEAN, ties_reversed \in BOOLEAN :
                /\ latest_country_data' = latest_per_country(df, end_date, ties_reversed)
                /\ top_10' = nlargest(df, latest_per_country(df, end_date, ties_reversed),
                                      TopN, fill_nan)
                /\ shown' = shown \cup {"chart_top10", "map"}
       ELSE /\ shown' = shown \cup {"info"}
            /\ UNCHANGED <<latest_country_data, top_10>>
    /\ pc' = "done"
    /\ UNCHANGED <<file, fileExists, cache, reads, df, selected_option, start_date,
                   end_date, filtered_df, latest_data, latest_comparison>>

\* -------------------------------------------------------- environment
\* Between runs the data file is removed from, or put back on, the disk.
FileRemoved ==
    /\ pc \in Ended
    /\ fileExists
    /\ fileExists' = FALSE
    /\ UNCHANGED <<file, cache, reads, pc>>
    /\ UNCHANGED runVars

FileCreated ==
    /\ pc \in Ended
    /\ ~fileExists
    /\ fileExists' = TRUE
    /\ UNCHANGED <<file, cache, reads, pc>>
    /\ UNCHANGED runVars

Next ==
    \/ Rerun
    \/ load_data
    \/ sidebar
    \/ filter_data
    \/ main_page
    \/ key_metrics
    \/ tab1
    \/ tab2
    \/ tab3
    \/ FileRemoved
    \/ FileCreated

Spec == Init /\ [][Next]_vars

\* ------------------------------------------------------------- claims
\* The script has computed filtered_df in this run.
PastFilter == pc \in {"main_page", "key_metrics", "tab1", "tab2", "tab3", "done"}
                  \/ (pc \in {"stopped", "failed"} /\ "title" \in shown)

\* Row i of the run's dataset matches the selected location and date range.
Matches(i) ==
    /\ df[i].location = (IF selected_option = Worldwide THEN World ELSE selected_option)
    /\ start_date <= df[i].date
    /\ df[i].date <= end_date

\* C1: the filtered table holds only rows of the selected location
\* ("Worldwide" standing for World) dated in start_date..end_date, holds every
\* such row of the dataset, and holds them in the dataset's order.
C1_FilterExact ==
    PastFilter =>
        /\ \A k \in DOMAIN filtered_df :
               filtered_df[k] \in DOMAIN df /\ Matches(filtered_df[k])
        /\ \A i \in DOMAIN df :
               Matches(i) => \E k \in DOMAIN filtered_df : filtered_df[k] = i
        /\ \A k, l \in DOMAIN filtered_df : k < l => filtered_df[k] < filtered_df[l]

\* A non-empty filter result next to a row of the selected location that the
\* date range leaves out.
C1_Witness ==
    /\ PastFilter
    /\ filtered_df # <<>>
    /\ \E i \in DOMAIN df :
           /\ df[i].location = df[filtered_df[1]].location
           /\ ~Matches(i)

\* Dates never decrease from a row to a later row of the same location.
SortedPerLocation(d) ==
    \A i, j \in DOMAIN d :
        (i < j /\ d[i].location = d[j].location) => d[i].date <= d[j].date

\* latest_data has the maximum date of the filtered rows.
LatestHasMaxDate ==
    \A k \in DOMAIN filtered_df : df[latest_data].date >= df[filtered_df[k]].date

\* C2 as stated: for every dataset the program can load, latest_data is the
\* row with the maximum date among the filtered rows.
C2_LatestIsMaxDate == latest_data # 0 => LatestHasMaxDate

\* C2, amended: for every dataset whose dates never decrease per location in
\* file order, latest_data is a row with the maximum date among the filtered
\* rows.
C2_LatestIsMaxDateWhenSorted ==
    (latest_data # 0 /\ SortedPerLocation(df)) => LatestHasMaxDate

\* A sorted dataset, two filtered rows of different dates, the latest taken.
C2_Witness ==
    /\ latest_data # 0
    /\ SortedPerLocation(df)
    /\ Len(filtered_df) >= 2
    /\ df[filtered_df[1]].date < df[latest_data].date

\* The Global View of this run has drawn the ranking.
RankingDrawn == "chart_top10" \in shown

Total(i) == df[i].total_vaccinations

InTop10(i) == \E k \in DOMAIN top_10 : top_10[k] = i

\* Row i ranks strictly above row j: it has a total and j has none or a
\* smaller one.
RanksAbove(i, j) ==
    /\ ~IsNaN(Total(i))
    /\ IsNaN(Total(j)) \/ Total(i) > Total(j)

\* C3: the top-10 ranking has at most 10 entries, taken from the per-country
\* latest rows, is in descending order of total vaccinations (rows without a
\* total last), and no row left out of it ranks above a row in it.
C3_Top10 ==
    RankingDrawn =>
        /\ Len(top_10) <= TopN
        /\ \A k \in DOMAIN top_10 :
               \E m \in DOMAIN latest_country_data : latest_country_data[m] = top_10[k]
        /\ \A k, l \in DOMAIN top_10 : k < l => ~RanksAbove(top_10[l], top_10[k])
        /\ \A m \in DOMAIN latest_country_data, k \in DOMAIN top_10 :
               ~InTop10(latest_country_data[m])
                   => ~RanksAbove(latest_country_data[m], top_10[k])

\* More than 10 countries, a full ranking, and a row with a total left out.
C3_Witness ==
    /\ RankingDrawn
    /\ Len(latest_country_data) > TopN
    /\ Len(top_10) = TopN
    /\ \E m \in DOMAIN latest_country_data :
           ~InTop10(latest_country_data[m]) /\ ~IsNaN(Total(latest_country_data[m]))
    /\ \E k, l \in DOMAIN top_10 : Total(top_10[k]) > Total(top_10[l]) /\ ~IsNaN(Total(top_10[l]))

\* The long form of `frame` is right: two records per row, one per (row,
\* count column) pair, with the row's location and that column's value.
MeltIsLong(frame, long) ==
    /\ Len(long) = 2 * Len(frame)
    /\ \A r \in DOMAIN frame, c \in DOMAIN comparison_cols :
           long[(c - 1) * Len(frame) + r] =
               [location |-> df[frame[r]].location,
                Metric |-> comparison_cols[c],
                Count |-> df[frame[r]][comparison_cols[c]]]

\* C4: reshaping the two count columns yields exactly 2 records per input
\* record, one per (record, metric) pair with the record's location and the
\* metric's value; the comparison table, built from the latest row, has
\* exactly 2 rows.
C4_MeltTwoPerRecord ==
    /\ PastFilter => MeltIsLong(filtered_df, melt(df, filtered_df))
    /\ pc \in {"tab3", "done"} =>
           /\ Len(latest_comparison) = 2
           /\ MeltIsLong(<<latest_data>>, latest_comparison)

\* The comparison table is built, from a filter result of several rows, and
\* its two counts differ.
C4_Witness ==
    /\ pc \in {"tab3", "done"}
    /\ Len(filtered_df) >= 2
    /\ Len(latest_comparison) = 2
    /\ latest_comparison[1].Count # latest_comparison[2].Count

SidebarShown == {"sidebar_header", "selectbox", "date_input"}

\* C5: if the data file is absent when the dataset is loaded, the run shows
\* the error and halts, and nothing but the error is on the page in that run.
C5_MissingFileHalts ==
    /\ []("error" \in shown => (pc = "stopped" /\ shown = {"error"} /\ df = NoData))
    /\ [][(pc = "load_data" /\ cache = NoData /\ ~fileExists)
              => (pc' = "stopped" /\ "error" \in shown')]_vars

\* A run halted on the missing file.
C5_Witness == pc = "stopped" /\ "error" \in shown /\ ~fileExists

\* C6: an empty filter result shows the warning and halts the run after the
\* title and the header, with no metric, progress bar, chart or global view
\* on the page; a non-empty filter result never shows the warning.
C6_EmptyFilterHalts ==
    /\ "title" \in shown => (filtered_df = <<>> <=> "warning" \in shown)
    /\ "warning" \in shown =>
           /\ pc = "stopped"
           /\ shown = SidebarShown \cup {"title", "header", "warning"}
    /\ filtered_df # <<>> => "warning" \notin shown

\* A run halted on the warning, with rows in the dataset that the filter left out.
C6_Witness == pc = "stopped" /\ "warning" \in shown /\ Len(df) >= 2

FullyRendered ==
    /\ {"metric_total_vaccinations", "metric_fully_vaccinated", "metric_boosters",
        "metric_coverage", "progress", "chart_total", "chart_daily",
        "chart_compare"} \subseteq shown
    /\ {"chart_top10", "map"} \subseteq shown \/ "info" \in shown

\* C7: a run ends halted on the file-missing error, halted on the
\* empty-filter warning, or fully rendered, and in no other way.
C7_ThreeOutcomes ==
    pc \in Ended =>
        \/ pc = "stopped" /\ "error" \in shown
        \/ pc = "stopped" /\ "warning" \in shown
        \/ pc = "done" /\ FullyRendered /\ "exception" \notin shown

\* C8: the dataset is read from disk at most once, the cached dataset stays
\* the dataset that was read, and every run works on that dataset, whatever
\* the earlier runs did and whatever became of the file.
C8_CacheReadOnce ==
    /\ reads <= 1
    /\ cache # NoData => (cache = file /\ reads = 1)
    /\ df # NoData => (df = file /\ cache = file)
    /\ PastFilter =>
           filtered_df = FilterByDate(file, FilterByLocation(file, location_to_filter(selected_option)),
                                      start_date, end_date)

\* A run past its filter, served from the cache after the file was removed.
C8_Witness ==
    /\ pc \in {"main_page", "key_metrics", "tab1", "tab2", "tab3"}
    /\ ~fileExists
    /\ filtered_df # <<>>

\* The latest date of location loc that is not after end_date.
LatestDateOf(loc) ==
    CHOOSE m \in Dates :
        /\ \E i \in DOMAIN df : df[i].location = loc /\ df[i].date = m /\ m <= end_date
        /\ \A i \in DOMAIN df :
               (df[i].location = loc /\ df[i].date <= end_date) => df[i].date <= m

OptionsAreCountries(options) ==
    /\ options # <<>>
    /\ options[1] = Worldwide
    /\ \A k, l \in 2 .. Len(options) : k < l => options[k] < options[l]
    /\ { options[k] : k \in 2 .. Len(options) }
           = unique_locations(df) \ non_country_aggregates

GlobalDrawn == {"chart_top10", "map"} \subseteq shown

\* C10 as stated, for the runs that end without an exception: the ranking
\* and the map are rendered if and only if the selected option is "Worldwide".
C10_GlobalIffWorldwide ==
    (pc \in {"done", "stopped"} /\ selected_option # NoOption) =>
        (GlobalDrawn <=> selected_option = Worldwide)

\* C10, amended: the options are "Worldwide" and then the non-aggregate
\* locations, each once, ascending; in a run that reaches the Global View tab
\* the ranking and the map are computed and rendered if and only if the
\* selected option is "Worldwide", any other selection gets only the
\* message; a run that ends before the tab renders none of the three.
C10_OptionsAndGlobalView ==
    /\ df # NoData => OptionsAreCountries(location_options(df))
    /\ selected_option # NoOption =>
           \E k \in DOMAIN location_options(df) : location_options(df)[k] = selected_option
    /\ pc = "done" =>
           /\ GlobalDrawn <=> selected_option = Worldwide
           /\ "info" \in shown <=> selected_option # Worldwide
           /\ "info" \in shown => shown \cap {"chart_top10", "map"} = {}
           /\ selected_option # Worldwide => (latest_country_data = <<>> /\ top_10 = <<>>)
    /\ pc # "done" =>
           /\ shown \cap {"chart_top10", "map", "info"} = {}
           /\ latest_country_data = <<>>
           /\ top_10 = <<>>

\* A run that ends on the message, with two countries and an aggregate to
\* choose from, the countries out of order in the file.
C10_Witness ==
    /\ pc = "done"
    /\ "info" \in shown
    /\ Len(location_options(df)) >= 3
    /\ \E i, j \in DOMAIN df :
           i < j /\ df[i].location > df[j].location /\ df[j].location \notin non_country_aggregates

====
